---- MODULE Spec2Model ----
(***************************************************************************)
(* Model of the gamification service (src/src/gamification-engine.js):     *)
(* the BehaviorAnalyzer scoring pipeline, the ChestOptimizer, and the      *)
(* three-tier configuration lookup GamificationEngine.getConfig.           *)
(*                                                                         *)
(* Numbers.  JavaScript doubles are modelled exactly, as rationals         *)
(* [n, d] with d > 0, or as NaN (0/0).  Every threshold test of the        *)
(* code is evaluated by cross-multiplication, so no rounding is involved.  *)
(* Dates of activity records are whole days; Date.now() of the analyzer is *)
(* the variable today (days), Date.now() of getConfig is now (ms).         *)
(***************************************************************************)
EXTENDS Integers, Sequences, FiniteSets, TLC

\* Optional input fields (a date or a duration that may be missing)
Some(v) == [some |-> TRUE, v |-> v]
Missing == [some |-> FALSE, v |-> 0]

\* Doubles: a rational n/d with d > 0, or NaN (written 0/0)
Rat(n, d) == [n |-> n, d |-> d]
NaN == Rat(0, 0)
IsNaN(x) == x.d = 0

\* ------------------------------------------------------------------------
\* Bounds of the analyzer inputs
\* ------------------------------------------------------------------------
MaxDeposits == 3
MaxBets == 2
MaxSessions == 1

DepositRecords == [date : {0, 30}, amount : {0, 200}]
BetRecords ==
    { [date |-> 0, amount |-> 5, result |-> "win"],
      [date |-> 0, amount |-> 100, result |-> "loss"],
      [date |-> 30, amount |-> 5, result |-> "loss"],
      [date |-> 30, amount |-> 100, result |-> "win"] }
SessionRecords == { [startTime |-> 0, duration |-> Some(60)],
                    [startTime |-> 30, duration |-> Missing] }
\* registrationDate / lastActivity: a day number, or missing
ActivityDates == {Missing, Some(60), Some(93), Some(97), Some(100)}
RegistrationDates == {Missing, Some(10)}
EvalDays == {100}

SeqsUpTo(S, n) == UNION { [1..k -> S] : k \in 0..n }

UserDatas ==
    [ depositHistory : SeqsUpTo(DepositRecords, MaxDeposits),
      betHistory : SeqsUpTo(BetRecords, MaxBets),
      sessionHistory : SeqsUpTo(SessionRecords, MaxSessions),
      registrationDate : RegistrationDates,
      lastActivity : ActivityDates ]

\* ------------------------------------------------------------------------
\* Arithmetic helpers
\* ------------------------------------------------------------------------
\* x > a/b and x < a/b on a rational or NaN (a comparison with NaN is false)
Gt(x, a, b) == ~IsNaN(x) /\ x.n * b > a * x.d
Lt(x, a, b) == ~IsNaN(x) /\ x.n * b < a * x.d

RECURSIVE SumSeq(_)
SumSeq(s) == IF Len(s) = 0 THEN 0 ELSE Head(s) + SumSeq(Tail(s))

RECURSIVE MaxSeq(_)
MaxSeq(s) == IF Len(s) = 1 THEN s[1]
             ELSE LET m == MaxSeq(Tail(s)) IN IF s[1] > m THEN s[1] ELSE m

Amounts(h) == [i \in 1..Len(h) |-> h[i].amount]

\* (Date.now() - new Date(x).getTime()) / msPerDay: a missing date is an
\* invalid date, and the difference is NaN
DaysSince(x, day) == IF x.some THEN Rat(day - x.v, 1) ELSE NaN

\* Math.max(1, (last - first) / msPerDay), record dates being whole days
DaysDiff(first, last) == IF last - first > 1 THEN last - first ELSE 1

\* count / daysDiff
Frequency(count, daysDiff) == Rat(count, daysDiff)

\* ------------------------------------------------------------------------
\* BehaviorAnalyzer helpers
\* ------------------------------------------------------------------------
calculateTrend(values) ==
    IF Len(values) < 2 THEN "stable"
    ELSE LET half == Len(values) \div 2
             firstHalf == SubSeq(values, 1, half)
             secondHalf == SubSeq(values, half + 1, Len(values))
             f == SumSeq(firstHalf) * Len(secondHalf)
             s == SumSeq(secondHalf) * Len(firstHalf)
         IN IF 10 * s > 11 * f THEN "increasing"
            ELSE IF 10 * s < 9 * f THEN "decreasing"
            ELSE "stable"

\* The volatility sqrt(variance) / mean is kept as its square
\* variance / mean^2 = (n * sum(v^2) - S^2) / S^2; amounts are >= 0, so the
\* volatility is >= 0 and v < 1/2 iff v^2 < 1/4, v > 1 iff v^2 > 1.
\* All amounts zero gives 0 / 0 = NaN.
calculateVolatility(values) ==
    IF Len(values) < 2 THEN Rat(0, 1)
    ELSE LET n == Len(values)
             S == SumSeq(values)
             Q == SumSeq([i \in 1..n |-> values[i] * values[i]])
         IN IF S = 0 THEN NaN ELSE Rat(n * Q - S * S, S * S)

determineRiskProfile(amounts) ==
    LET n == Len(amounts)
        S == SumSeq(amounts)
    IN IF MaxSeq(amounts) * n > S * 5 THEN "aggressive"
       ELSE IF S < 10 * n THEN "conservative"
       ELSE "moderate"

calculateActivityLevel(accountAge, daysSinceLastActivity) ==
    IF Lt(daysSinceLastActivity, 1, 1) THEN "very_high"
    ELSE IF Lt(daysSinceLastActivity, 7, 1) THEN "high"
    ELSE IF Lt(daysSinceLastActivity, 30, 1) THEN "medium"
    ELSE "low"

\* ------------------------------------------------------------------------
\* BehaviorAnalyzer sub-analyses
\* ------------------------------------------------------------------------
analyzeDeposits(depositHistory) ==
    IF Len(depositHistory) = 0
    THEN [frequency |-> Rat(0, 1), averageAmount |-> Rat(0, 1),
          trend |-> "none", volatilitySq |-> Rat(0, 1)]
    ELSE LET amounts == Amounts(depositHistory)
             n == Len(depositHistory)
         IN [frequency |-> Frequency(n, DaysDiff(depositHistory[1].date,
                                                 depositHistory[n].date)),
             averageAmount |-> Rat(SumSeq(amounts), n),
             trend |-> calculateTrend(amounts),
             volatilitySq |-> calculateVolatility(amounts)]

analyzeBetting(betHistory) ==
    IF Len(betHistory) = 0
    THEN [frequency |-> Rat(0, 1), averageAmount |-> Rat(0, 1),
          winRate |-> Rat(0, 1), riskProfile |-> "unknown"]
    ELSE LET amounts == Amounts(betHistory)
             n == Len(betHistory)
             wins == Cardinality({i \in 1..n : betHistory[i].result = "win"})
         IN [frequency |-> Frequency(n, DaysDiff(betHistory[1].date,
                                                 betHistory[n].date)),
             averageAmount |-> Rat(SumSeq(amounts), n),
             winRate |-> Rat(wins, n),
             riskProfile |-> determineRiskProfile(amounts)]

\* s.duration || 0; the peak-hours list does not feed the score, the
\* patterns or the recommendations and is left out.
analyzeSessions(sessionHistory) ==
    IF Len(sessionHistory) = 0
    THEN [averageDuration |-> Rat(0, 1), frequency |-> Rat(0, 1)]
    ELSE LET n == Len(sessionHistory)
             durations == [i \in 1..n |->
                             IF sessionHistory[i].duration.some
                             THEN sessionHistory[i].duration.v ELSE 0]
         IN [averageDuration |-> Rat(SumSeq(durations), n),
             frequency |-> Frequency(n, DaysDiff(sessionHistory[1].startTime,
                                                 sessionHistory[n].startTime))]

analyzeTemporalPatterns(data, day) ==
    LET accountAge == DaysSince(data.registrationDate, day)
        daysSinceLastActivity == DaysSince(data.lastActivity, day)
    IN [accountAge |-> accountAge,
        daysSinceLastActivity |-> daysSinceLastActivity,
        activityLevel |-> calculateActivityLevel(accountAge, daysSinceLastActivity)]

\* ------------------------------------------------------------------------
\* BehaviorAnalyzer: score, risk level, patterns, recommendations
\* ------------------------------------------------------------------------
Inc(cond, points) == IF cond THEN points ELSE 0

\* The running sum with a penalty rule: 15 points off for a win rate below 0.3
ScoreSumPenalised(analyses) ==
    50
    + Inc(Gt(analyses.depositAnalysis.frequency, 1, 10), 10)
    + Inc(Gt(analyses.depositAnalysis.averageAmount, 100, 1), 10)
    + Inc(Lt(analyses.depositAnalysis.volatilitySq, 1, 4), 5)
    + Inc(Gt(analyses.bettingAnalysis.winRate, 4, 10), 10)
    - Inc(Lt(analyses.bettingAnalysis.winRate, 3, 10), 15)
    + Inc(Gt(analyses.bettingAnalysis.frequency, 1, 1), 5)
    + Inc(analyses.bettingAnalysis.riskProfile = "conservative", 10)
    + Inc(Gt(analyses.sessionAnalysis.frequency, 5, 10), 5)
    + Inc(Gt(analyses.sessionAnalysis.averageDuration, 30, 1), 5)
    + Inc(analyses.temporalAnalysis.activityLevel = "high", 10)
    + Inc(Lt(analyses.temporalAnalysis.daysSinceLastActivity, 7, 1), 5)

\* The running sum with the average-amount bonus tied to the frequency bonus
\* (an else-if in place of the second if)
ScoreSumChained(analyses) ==
    50
    + (IF Gt(analyses.depositAnalysis.frequency, 1, 10) THEN 10
       ELSE Inc(Gt(analyses.depositAnalysis.averageAmount, 100, 1), 10))
    + Inc(Lt(analyses.depositAnalysis.volatilitySq, 1, 4), 5)
    + Inc(Gt(analyses.bettingAnalysis.winRate, 4, 10), 10)
    + Inc(Gt(analyses.bettingAnalysis.frequency, 1, 1), 5)
    + Inc(analyses.bettingAnalysis.riskProfile = "conservative", 10)
    + Inc(Gt(analyses.sessionAnalysis.frequency, 5, 10), 5)
    + Inc(Gt(analyses.sessionAnalysis.averageDuration, 30, 1), 5)
    + Inc(analyses.temporalAnalysis.activityLevel = "high", 10)
    + Inc(Lt(analyses.temporalAnalysis.daysSinceLastActivity, 7, 1), 5)

\* The running sum of calculateBehaviorScore before the final clamp
ScoreSum(analyses) ==
    50
    + Inc(Gt(analyses.depositAnalysis.frequency, 1, 10), 10)
    + Inc(Gt(analyses.depositAnalysis.averageAmount, 100, 1), 10)
    + Inc(Lt(analyses.depositAnalysis.volatilitySq, 1, 4), 5)
    + Inc(Gt(analyses.bettingAnalysis.winRate, 4, 10), 10)
    + Inc(Gt(analyses.bettingAnalysis.frequency, 1, 1), 5)
    + Inc(analyses.bettingAnalysis.riskProfile = "conservative", 10)
    + Inc(Gt(analyses.sessionAnalysis.frequency, 5, 10), 5)
    + Inc(Gt(analyses.sessionAnalysis.averageDuration, 30, 1), 5)
    + Inc(analyses.temporalAnalysis.activityLevel = "high", 10)
    + Inc(Lt(analyses.temporalAnalysis.daysSinceLastActivity, 7, 1), 5)

Min(a, b) == IF a < b THEN a ELSE b
Max(a, b) == IF a > b THEN a ELSE b

calculateBehaviorScoreUnclamped(analyses) == ScoreSum(analyses)

calculateBehaviorScore(analyses) == Min(100, Max(0, ScoreSum(analyses)))

determineRiskLevelShifted(score) ==
    IF score >= 70 THEN "low"
    ELSE IF score >= 50 THEN "medium"
    ELSE IF score >= 30 THEN "high"
    ELSE "very_high"

determineRiskLevel(score) ==
    IF score >= 80 THEN "low"
    ELSE IF score >= 60 THEN "medium"
    ELSE IF score >= 40 THEN "high"
    ELSE "very_high"

PushIf(cond, tag) == IF cond THEN <<tag>> ELSE <<>>

identifyPatterns(analyses) ==
    PushIf(Gt(analyses.depositAnalysis.frequency, 1, 1), "frequent_depositor")
    \o PushIf(Gt(analyses.depositAnalysis.volatilitySq, 1, 1), "volatile_deposits")
    \o PushIf(analyses.bettingAnalysis.riskProfile = "aggressive", "high_risk_bettor")
    \o PushIf(Lt(analyses.bettingAnalysis.winRate, 3, 10), "frequent_loser")
    \o PushIf(Gt(analyses.temporalAnalysis.daysSinceLastActivity, 30, 1), "inactive_user")

Includes(seq, x) == \E i \in 1..Len(seq) : seq[i] = x

\* generateRecommendations with the two pattern checks in pattern-tag order
generateRecommendationsTagOrder(score, riskLevel, patterns) ==
    (IF riskLevel = "low" THEN <<"Oferecer baus premium", "Programa VIP">>
     ELSE IF riskLevel = "medium"
          THEN <<"Baus padrao com bonus", "Promocoes moderadas">>
          ELSE <<"Baus basicos", "Monitoramento aumentado">>)
    \o PushIf(Includes(patterns, "frequent_depositor"), "Programa de fidelidade")
    \o PushIf(Includes(patterns, "inactive_user"), "Campanha de reativacao")

generateRecommendations(score, riskLevel, patterns) ==
    (IF riskLevel = "low" THEN <<"Oferecer baus premium", "Programa VIP">>
     ELSE IF riskLevel = "medium"
          THEN <<"Baus padrao com bonus", "Promocoes moderadas">>
          ELSE <<"Baus basicos", "Monitoramento aumentado">>)
    \o PushIf(Includes(patterns, "inactive_user"), "Campanha de reativacao")
    \o PushIf(Includes(patterns, "frequent_depositor"), "Programa de fidelidade")

\* BehaviorAnalyzer.analyze: missing histories default to [] (the input
\* sets draw them as empty sequences)
analyze(data, day) ==
    LET analyses == [depositAnalysis |-> analyzeDeposits(data.depositHistory),
                     bettingAnalysis |-> analyzeBetting(data.betHistory),
                     sessionAnalysis |-> analyzeSessions(data.sessionHistory),
                     temporalAnalysis |-> analyzeTemporalPatterns(data, day)]
        behaviorScore == calculateBehaviorScore(analyses)
        riskLevel == determineRiskLevel(behaviorScore)
        patterns == identifyPatterns(analyses)
    IN [score |-> behaviorScore,
        riskLevel |-> riskLevel,
        patterns |-> patterns,
        recommendations |-> generateRecommendations(behaviorScore, riskLevel, patterns),
        details |-> analyses]

\* ------------------------------------------------------------------------
\* ChestOptimizer
\* ------------------------------------------------------------------------
\* Bound on the length of the requested tier list
MaxTiers == 3

\* Property names a plain object inherits from Object.prototype: configs[name]
\* is then a truthy value that has no successRate, minValue or maxValue
ObjectPrototypeKeys == {"constructor"}

\* Tier ids a request may name; "diamond" has no configuration and
\* "constructor" names an inherited property of the configuration object
RequestTiers == {"silver", "gold", "platinum", "diamond"} \cup ObjectPrototypeKeys

\* userProfile: behaviorScore and the history length may be missing
\* (undefined compares false with every threshold)
Profiles ==
    [ behaviorScore : {Missing, Some(30), Some(50), Some(90)},
      riskLevel : {"low", "medium", "high", "very_high"},
      historyLength : {Missing, Some(10), Some(11)} ]

\* getGamificationConfigs: the hard-coded table
getGamificationConfigs ==
    [ silver |-> [successRate |-> Rat(7, 10), minValue |-> 10, maxValue |-> 50],
      gold |-> [successRate |-> Rat(5, 10), minValue |-> 25, maxValue |-> 100],
      platinum |-> [successRate |-> Rat(3, 10), minValue |-> 50, maxValue |-> 200] ]

\* The value an inherited property name resolves to
InheritedValue == [inherited |-> TRUE]

\* configs[chestType], for a chestType whose lookup is truthy
ConfigOf(configs, chestType) ==
    IF chestType \in DOMAIN configs THEN configs[chestType] ELSE InheritedValue

\* configs[chestType] is truthy (the loop goes on past "if (!config) continue")
HasConfig(configs, chestType) ==
    chestType \in DOMAIN configs \/ chestType \in ObjectPrototypeKeys

RECURSIVE GCD(_, _)
GCD(a, b) == IF b = 0 THEN a ELSE GCD(b, a % b)

\* A rational in lowest terms (one double has one representation)
Reduced(n, d) ==
    IF d = 0 THEN NaN
    ELSE LET g == GCD(IF n < 0 THEN 0 - n ELSE n, d) IN Rat(n \div g, d \div g)

\* x * (n / d) and x + y
RMul(x, n, d) == Reduced(x.n * n, x.d * d)
RAdd(x, y) == Reduced(x.n * y.d + y.n * x.d, x.d * y.d)
\* x > y
RGt(x, y) == ~IsNaN(x) /\ ~IsNaN(y) /\ x.n * y.d > y.n * x.d

\* The potential of one tier for a profile, before the clamp
Potential(userProfile, config) ==
    IF "successRate" \notin DOMAIN config THEN NaN ELSE
    LET base == config.successRate
        byScore == IF userProfile.behaviorScore.some
                      /\ userProfile.behaviorScore.v > 80 THEN RMul(base, 12, 10)
                   ELSE IF userProfile.behaviorScore.some
                           /\ userProfile.behaviorScore.v < 40 THEN RMul(base, 8, 10)
                   ELSE base
    IN IF userProfile.riskLevel = "low" THEN RMul(byScore, 11, 10)
       ELSE IF userProfile.riskLevel = "very_high" THEN RMul(byScore, 7, 10)
       ELSE byScore

\* potentials[chestType] = { potential, expectedValue, config }
PotentialEntry(userProfile, chestType, config) ==
    LET potential == Potential(userProfile, config)
    IN IF IsNaN(potential)
       THEN [type |-> chestType, potential |-> NaN, expectedValue |-> NaN,
             config |-> config]
       ELSE [type |-> chestType,
             potential |-> IF Gt(potential, 1, 1) THEN Rat(1, 1)
                           ELSE Reduced(potential.n, potential.d),
             expectedValue |-> RMul(potential, config.minValue + config.maxValue, 2),
             config |-> config]

\* calculateChestPotentials collecting into an array: a repeated id gets a
\* second entry instead of overwriting the first
RECURSIVE calculateChestPotentialsAppending(_, _, _)
calculateChestPotentialsAppending(userProfile, availableChests, configs) ==
    IF Len(availableChests) = 0 THEN <<>>
    ELSE LET n == Len(availableChests)
             before == calculateChestPotentialsAppending(
                           userProfile, SubSeq(availableChests, 1, n - 1), configs)
             chestType == availableChests[n]
         IN IF ~HasConfig(configs, chestType) THEN before
            ELSE Append(before,
                        PotentialEntry(userProfile, chestType, ConfigOf(configs, chestType)))

\* calculateChestPotentials: an object keyed by tier id, kept as the
\* sequence of its entries in insertion order (a repeated id overwrites its
\* entry in place)
RECURSIVE calculateChestPotentials(_, _, _)
calculateChestPotentials(userProfile, availableChests, configs) ==
    IF Len(availableChests) = 0 THEN <<>>
    ELSE LET n == Len(availableChests)
             before == calculateChestPotentials(
                           userProfile, SubSeq(availableChests, 1, n - 1), configs)
             chestType == availableChests[n]
         IN IF ~HasConfig(configs, chestType) THEN before
            ELSE IF \E i \in 1..Len(before) : before[i].type = chestType
                 THEN [i \in 1..Len(before) |->
                         IF before[i].type = chestType
                         THEN PotentialEntry(userProfile, chestType, ConfigOf(configs, chestType))
                         ELSE before[i]]
                 ELSE Append(before,
                             PotentialEntry(userProfile, chestType, ConfigOf(configs, chestType)))

\* Array.prototype.sort with (a, b) => b.expectedValue - a.expectedValue, as the
\* runtime (V8) sorts an array of fewer than 64 elements: one run is counted at
\* the front, reversed if strictly descending, and the rest is placed by binary
\* insertion.  CallCompare is the sign the sort sees: a NaN difference counts
\* as 0.
CallCompare(a, b) ==
    IF RGt(a.expectedValue, b.expectedValue) THEN -1
    ELSE IF RGt(b.expectedValue, a.expectedValue) THEN 1
    ELSE 0

Reverse(w) == [i \in 1..Len(w) |-> w[Len(w) + 1 - i]]

\* The first two elements decide the direction of the front run
IsDescending(w) == CallCompare(w[2], w[1]) < 0

\* Length of the front run of w (Len(w) >= 2)
RunLength(w) ==
    LET Continues(idx) == IF IsDescending(w)
                          THEN CallCompare(w[idx], w[idx - 1]) < 0
                          ELSE CallCompare(w[idx], w[idx - 1]) >= 0
    IN CHOOSE r \in 2..Len(w) :
          /\ \A idx \in 3..r : Continues(idx)
          /\ (r = Len(w) \/ ~Continues(r + 1))

CountAndMakeRun(w) ==
    IF IsDescending(w)
    THEN Reverse(SubSeq(w, 1, RunLength(w))) \o SubSeq(w, RunLength(w) + 1, Len(w))
    ELSE w

\* The number of elements of w[1..right] the pivot is placed after
RECURSIVE BinarySearch(_, _, _, _)
BinarySearch(w, pivot, left, right) ==
    IF left >= right THEN left
    ELSE LET mid == left + ((right - left) \div 2)
         IN IF CallCompare(pivot, w[mid + 1]) < 0
            THEN BinarySearch(w, pivot, left, mid)
            ELSE BinarySearch(w, pivot, mid + 1, right)

\* Places w[start], w[start + 1], ... into the sorted front of w
RECURSIVE BinaryInsertionSort(_, _)
BinaryInsertionSort(w, start) ==
    IF start > Len(w) THEN w
    ELSE LET pivot == w[start]
             left == BinarySearch(w, pivot, 0, start - 1)
         IN BinaryInsertionSort(
                SubSeq(w, 1, left) \o <<pivot>> \o SubSeq(w, left + 1, start - 1)
                    \o SubSeq(w, start + 1, Len(w)),
                start + 1)

SortByExpectedValue(entries) ==
    IF Len(entries) < 2 THEN entries
    ELSE BinaryInsertionSort(CountAndMakeRun(entries), RunLength(entries) + 1)

calculateOptimalQuantity(chestData) ==
    IF Gt(chestData.potential, 8, 10) THEN 3
    ELSE IF Gt(chestData.potential, 6, 10) THEN 2
    ELSE 1

\* The loop of optimizeDistribution without its potential > 0.3 condition
RECURSIVE RetainedAll(_)
RetainedAll(sortedChests) ==
    IF Len(sortedChests) = 0 THEN <<>>
    ELSE LET data == Head(sortedChests)
         IN <<[type |-> data.type,
               quantity |-> calculateOptimalQuantity(data),
               potential |-> data.potential,
               expectedValue |-> data.expectedValue]>>
            \o RetainedAll(Tail(sortedChests))

RECURSIVE Retained(_)
Retained(sortedChests) ==
    IF Len(sortedChests) = 0 THEN <<>>
    ELSE LET data == Head(sortedChests)
         IN (IF Gt(data.potential, 3, 10)
             THEN <<[type |-> data.type,
                     quantity |-> calculateOptimalQuantity(data),
                     potential |-> data.potential,
                     expectedValue |-> data.expectedValue]>>
             ELSE <<>>) \o Retained(Tail(sortedChests))

optimizeDistribution(chestPotentials) ==
    Retained(SortByExpectedValue(chestPotentials))

RECURSIVE calculateExpectedValue(_)
calculateExpectedValue(distribution) ==
    IF Len(distribution) = 0 THEN Rat(0, 1)
    ELSE LET n == Len(distribution)
         IN RAdd(calculateExpectedValue(SubSeq(distribution, 1, n - 1)),
                 RMul(distribution[n].expectedValue, distribution[n].quantity, 1))

\* calculateConfidence with the history bonus granted from length 10 on
calculateConfidenceInclusive(userProfile, distribution) ==
    LET tenths == 5
            + Inc(userProfile.historyLength.some
                  /\ userProfile.historyLength.v >= 10, 2)
            + Inc(userProfile.behaviorScore.some
                  /\ userProfile.behaviorScore.v > 60, 2)
            + Inc(Len(distribution) > 0, 1)
    IN Rat(Min(10, tenths), 10)

\* In tenths: 0.5 base, +0.2, +0.2, +0.1, Math.min(1.0, .)
calculateConfidence(userProfile, distribution) ==
    LET tenths == 5
            + Inc(userProfile.historyLength.some
                  /\ userProfile.historyLength.v > 10, 2)
            + Inc(userProfile.behaviorScore.some
                  /\ userProfile.behaviorScore.v > 60, 2)
            + Inc(Len(distribution) > 0, 1)
    IN Rat(Min(10, tenths), 10)

generateReasoning(userProfile, distribution) ==
    PushIf(userProfile.behaviorScore.some /\ userProfile.behaviorScore.v > 80,
           "Usuario com alto score comportamental")
    \o PushIf(userProfile.riskLevel = "low", "Perfil de baixo risco identificado")
    \o PushIf(Len(distribution) > 1, "Distribuicao diversificada recomendada")

\* The steps of optimize after the configurations have been obtained
optimizeWith(userProfile, availableChests, configs) ==
    LET chestPotentials == calculateChestPotentials(userProfile, availableChests, configs)
        optimizedDistribution == optimizeDistribution(chestPotentials)
    IN [chests |-> optimizedDistribution,
        expectedValue |-> calculateExpectedValue(optimizedDistribution),
        confidence |-> calculateConfidence(userProfile, optimizedDistribution),
        reasoning |-> generateReasoning(userProfile, optimizedDistribution)]

\* ChestOptimizer.optimize
optimize(userProfile, availableChests) ==
    optimizeWith(userProfile, availableChests, getGamificationConfigs)

\* ------------------------------------------------------------------------
\* GamificationEngine.getConfig: constants and helpers
\* ------------------------------------------------------------------------
cacheTtlSeconds == 300000 \div 1000

cacheTtl == 300000

\* Bound on the number of clock advances
MaxTicks == 3

\* Clock advances between two steps (ms)
Steps == {1, cacheTtl - 1}

Keys == {"silver"}
Values == {"v1", "v2"}
Calls == {"c1", "c2"}

\* A returned value: null, or a configuration value
Null == [some |-> FALSE, v |-> ""]
Val(v) == [some |-> TRUE, v |-> v]

\* `config_cache:${key}`
RedisKey(key) == "config_cache:" \o key

\* The text a JSON writer stores for a configuration value
JSONStringify(v) == "\"" \o v \o "\""

\* JSON.parse: the value of a well-formed text, a SyntaxError otherwise
JSONParse(text) ==
    IF \E v \in Values : text = JSONStringify(v)
    THEN [ok |-> TRUE, value |-> CHOOSE v \in Values : text = JSONStringify(v)]
    ELSE [ok |-> FALSE, value |-> ""]

\* What the distributed cache may hold under a key: nothing, or a string
\* (well-formed JSON, the empty string, or text that is not JSON)
RedisNil == [present |-> FALSE, text |-> ""]
RedisStr(text) == [present |-> TRUE, text |-> text]
RedisContents == {RedisNil, RedisStr(JSONStringify("v1")), RedisStr(""),
                  RedisStr("{oops")}

\* if (redisValue): null and the empty string are falsy
Truthy(rv) == rv.present /\ rv.text # ""

\* localCache entries: absent, or {value, timestamp}
NoEntry == [present |-> FALSE, value |-> "", timestamp |-> 0]
Entry(value, t) == [present |-> TRUE, value |-> value, timestamp |-> t]

LocalHitInclusive(cache, key, t) ==
    cache[key].present /\ t - cache[key].timestamp <= cacheTtl

\* cached && Date.now() - cached.timestamp < this.cacheTtl
LocalHit(cache, key, t) ==
    cache[key].present /\ t - cache[key].timestamp < cacheTtl

LocalSetTorn(cache, key, value, t) ==
    [cache EXCEPT ![key] = Entry(value, IF cache[key].present
                                        THEN cache[key].timestamp ELSE t)]

\* this.localCache.set(key, { value, timestamp: Date.now() })
LocalSet(cache, key, value, t) == [cache EXCEPT ![key] = Entry(value, t)]

RedisHitNoCache(cache, key, value, t) == cache

\* line 46: a distributed-cache hit populates the in-process cache
RedisHitCache(cache, key, value, t) == LocalSet(cache, key, value, t)

\* line 61: a successful origin fetch populates the in-process cache
OriginHitCache(cache, key, value, t) == LocalSet(cache, key, value, t)

\* A call slot not running getConfig
IdleCall ==
    [pc |-> "idle", key |-> "", result |-> Null, path |-> "", raised |-> FALSE,
     contacted |-> FALSE, redisRead |-> RedisNil, redisThrew |-> FALSE,
     atStart |-> "", fetchedFresh |-> FALSE, afterClear |-> FALSE]

CaughtRethrown(call) ==
    [call EXCEPT !.pc = "done", !.result = Null, !.path = "error",
                 !.raised = TRUE]

\* catch (error) { console.error(...); return null; }
Caught(call) ==
    [call EXCEPT !.pc = "done", !.result = Null, !.path = "error",
                 !.raised = FALSE]

\* return value (from a cache tier or the origin)
Returned(call, value, path) ==
    [call EXCEPT !.pc = "done", !.result = Val(value), !.path = path]

\* Outcomes of the axios request that throw: the 5 s timeout, a connection
\* failure, a response with an error status
OriginFailures == {"timeout", "unreachable", "http_error"}

\* ------------------------------------------------------------------------
\* State
\* ------------------------------------------------------------------------
VARIABLES
    userData,     \* the activity history handed to analyze
    today,        \* Date.now() of the analysis, in days
    analysis,     \* [done, result]: the BehaviorAnalysis returned by analyze
    now,          \* Date.now() of the engine, in ms
    ticks,        \* number of clock advances so far
    redisClient,  \* this.redisClient: "null", "open" or "closed"
    localCache,   \* this.localCache: key -> entry
    redisStore,   \* the distributed cache: namespaced key -> contents
    calls,        \* the getConfig calls in flight, one record per slot
    lastFetch,    \* history: time of the last successful origin fetch of a key
    clearedSince, \* history: a cache-clear request came after the last write
    optimization, \* [done, userProfile, availableChests, result] of optimize
    potentials,   \* [done, userProfile, availableChests, configs, result] of
                  \* calculateChestPotentials followed by optimizeDistribution
    rewards,      \* [done, userActivity, chestType, threw, result] of calculate
    response      \* [done, endpoint, body, invoked, threw, status, ...]: the
                  \* HTTP request served and its response

analyzerVars == <<userData, today, analysis, optimization>>
serviceVars == <<potentials, rewards, response>>
engineVars == <<now, ticks, redisClient, localCache, redisStore, calls,
                lastFetch, clearedSince>>
vars == <<userData, today, analysis, now, ticks, redisClient, localCache,
          redisStore, calls, lastFetch, clearedSince, optimization,
          potentials, rewards, response>>

NoAnalysis == [done |-> FALSE]
NoOptimization == [done |-> FALSE]
NoPotentials == [done |-> FALSE]
NoRewards == [done |-> FALSE]
NoResponse == [done |-> FALSE]

NoUserData ==
    [depositHistory |-> <<>>, betHistory |-> <<>>, sessionHistory |-> <<>>,
     registrationDate |-> Missing, lastActivity |-> Missing]

\* The engine after its constructor: no Redis client, empty in-process cache
InitEngine ==
    /\ now = 0
    /\ ticks = 0
    /\ redisClient = "null"
    /\ localCache = [k \in Keys |-> NoEntry]
    /\ calls = [c \in Calls |-> IdleCall]
    /\ lastFetch = [k \in Keys |-> Missing]
    /\ clearedSince = [k \in Keys |-> FALSE]

InitIdleAnalyzer ==
    /\ userData = NoUserData
    /\ today = 0
    /\ analysis = NoAnalysis
    /\ optimization = NoOptimization
    /\ potentials = NoPotentials
    /\ rewards = NoRewards
    /\ response = NoResponse

\* ------------------------------------------------------------------------
\* Analyzer specification: the input is drawn at Init, Analyze applies
\* BehaviorAnalyzer.analyze to it
\* ------------------------------------------------------------------------
InitAnalyze ==
    /\ userData \in UserDatas
    /\ today \in EvalDays
    /\ analysis = NoAnalysis
    /\ optimization = NoOptimization
    /\ potentials = NoPotentials
    /\ rewards = NoRewards
    /\ response = NoResponse
    /\ InitEngine
    /\ redisStore = [rk \in {RedisKey(k) : k \in Keys} |-> RedisNil]

Analyze ==
    /\ ~analysis.done
    /\ analysis' = [done |-> TRUE, result |-> analyze(userData, today)]
    /\ UNCHANGED <<userData, today, optimization>>
    /\ UNCHANGED engineVars
    /\ UNCHANGED serviceVars

NextAnalyze == Analyze

SpecAnalyze == InitAnalyze /\ [][NextAnalyze]_vars

\* ------------------------------------------------------------------------
\* Engine specification: getConfig calls interleave at their two awaits
\* ------------------------------------------------------------------------
Init ==
    /\ InitIdleAnalyzer
    /\ InitEngine
    /\ redisStore \in [{RedisKey(k) : k \in Keys} -> RedisContents]

\* The wall clock advances
Tick(d) ==
    /\ ticks < MaxTicks
    /\ now' = now + d
    /\ ticks' = ticks + 1
    /\ UNCHANGED <<redisClient, localCache, redisStore, calls, lastFetch, clearedSince>>
    /\ UNCHANGED analyzerVars
    /\ UNCHANGED serviceVars

\* initialize(): createClient, then connect() succeeds or throws; the
\* client object stays assigned either way
Initialize ==
    /\ redisClient = "null"
    /\ redisClient' \in {"open", "closed"}
    /\ UNCHANGED <<now, ticks, localCache, redisStore, calls, lastFetch, clearedSince>>
    /\ UNCHANGED analyzerVars
    /\ UNCHANGED serviceVars

\* getConfig(key) up to its first await: the in-process cache check
GetStart(c, key) ==
    /\ calls[c].pc = "idle"
    /\ LET started == [IdleCall EXCEPT
                         !.key = key,
                         !.atStart = IF ~localCache[key].present THEN "absent"
                                     ELSE IF now - localCache[key].timestamp >= 300 * 1000
                                          THEN "expired" ELSE "fresh",
                         !.fetchedFresh = lastFetch[key].some
                                          /\ now - lastFetch[key].v < 300 * 1000,
                         !.afterClear = clearedSince[key]]
       IN calls' = [calls EXCEPT ![c] =
             IF LocalHit(localCache, key, now)
             THEN Returned(started, localCache[key].value, "local")
             ELSE IF redisClient # "null"
                  THEN [started EXCEPT !.pc = "redis"]
                  ELSE [started EXCEPT !.pc = "origin", !.contacted = TRUE]]
    /\ UNCHANGED <<now, ticks, redisClient, localCache, redisStore, lastFetch, clearedSince>>
    /\ UNCHANGED analyzerVars
    /\ UNCHANGED serviceVars

\* await this.redisClient.get(...) throws: the client is closed or the
\* connection broke
RedisThrow(c) ==
    /\ calls[c].pc = "redis"
    /\ calls' = [calls EXCEPT ![c] = Caught([calls[c] EXCEPT !.redisThrew = TRUE])]
    /\ UNCHANGED <<now, ticks, redisClient, localCache, redisStore, lastFetch, clearedSince>>
    /\ UNCHANGED analyzerVars
    /\ UNCHANGED serviceVars

\* await this.redisClient.get(...) answers
RedisReply(c) ==
    /\ calls[c].pc = "redis"
    /\ redisClient = "open"
    /\ LET key == calls[c].key
           rv == redisStore[RedisKey(key)]
           read == [calls[c] EXCEPT !.redisRead = rv]
           parsed == JSONParse(rv.text)
       IN IF Truthy(rv)
          THEN IF parsed.ok
               THEN /\ localCache' = RedisHitCache(localCache, key, parsed.value, now)
                    /\ clearedSince' = [clearedSince EXCEPT ![key] = FALSE]
                    /\ calls' = [calls EXCEPT ![c] =
                                    Returned(read, parsed.value, "redis")]
               ELSE /\ calls' = [calls EXCEPT ![c] = Caught(read)]
                    /\ UNCHANGED <<localCache, clearedSince>>
          ELSE /\ calls' = [calls EXCEPT ![c] =
                              [read EXCEPT !.pc = "origin", !.contacted = TRUE]]
               /\ UNCHANGED <<localCache, clearedSince>>
    /\ UNCHANGED <<now, ticks, redisClient, redisStore, lastFetch>>
    /\ UNCHANGED analyzerVars
    /\ UNCHANGED serviceVars

\* await axios.get(...) answers with success: true
OriginSuccess(c, value) ==
    /\ calls[c].pc = "origin"
    /\ LET key == calls[c].key
       IN /\ localCache' = OriginHitCache(localCache, key, value, now)
          /\ lastFetch' = [lastFetch EXCEPT ![key] = Some(now)]
          /\ clearedSince' = [clearedSince EXCEPT ![key] = FALSE]
          /\ calls' = [calls EXCEPT ![c] = Returned(calls[c], value, "origin")]
    /\ UNCHANGED <<now, ticks, redisClient, redisStore>>
    /\ UNCHANGED analyzerVars
    /\ UNCHANGED serviceVars

\* await axios.get(...) answers 200 with success: false
OriginNoSuccess(c) ==
    /\ calls[c].pc = "origin"
    /\ calls' = [calls EXCEPT ![c] =
                    [calls[c] EXCEPT !.pc = "done", !.result = Null,
                                     !.path = "nosuccess"]]
    /\ UNCHANGED <<now, ticks, redisClient, localCache, redisStore, lastFetch, clearedSince>>
    /\ UNCHANGED analyzerVars
    /\ UNCHANGED serviceVars

\* await axios.get(...) throws
OriginThrow(c, failure) ==
    /\ calls[c].pc = "origin"
    /\ calls' = [calls EXCEPT ![c] = [Caught(calls[c]) EXCEPT !.path = failure]]
    /\ UNCHANGED <<now, ticks, redisClient, localCache, redisStore, lastFetch, clearedSince>>
    /\ UNCHANGED analyzerVars
    /\ UNCHANGED serviceVars

\* The caller has taken the result; the slot serves the next call
Return(c) ==
    /\ calls[c].pc = "done"
    /\ calls' = [calls EXCEPT ![c] = IdleCall]
    /\ UNCHANGED <<now, ticks, redisClient, localCache, redisStore, lastFetch, clearedSince>>
    /\ UNCHANGED analyzerVars
    /\ UNCHANGED serviceVars

\* POST /api/v1/cache/clear (the cache reset of the README): no route and
\* no engine method exists, the request falls through to the 404 handler
ClearRequest ==
    /\ clearedSince' = [k \in Keys |-> TRUE]
    /\ UNCHANGED <<now, ticks, redisClient, localCache, redisStore, calls, lastFetch>>
    /\ UNCHANGED analyzerVars
    /\ UNCHANGED serviceVars

Next ==
    \/ \E d \in Steps : Tick(d)
    \/ Initialize
    \/ \E c \in Calls, key \in Keys : GetStart(c, key)
    \/ \E c \in Calls : RedisThrow(c)
    \/ \E c \in Calls : RedisReply(c)
    \/ \E c \in Calls, value \in Values : OriginSuccess(c, value)
    \/ \E c \in Calls : OriginNoSuccess(c)
    \/ \E c \in Calls, failure \in OriginFailures : OriginThrow(c, failure)
    \/ \E c \in Calls : Return(c)
    \/ ClearRequest

Spec == Init /\ [][Next]_vars

\* ------------------------------------------------------------------------
\* Optimizer specification: optimizeChestDistribution runs on an engine whose
\* getConfig serves one caller
\* ------------------------------------------------------------------------
\* optimizeChestDistribution -> ChestOptimizer.optimize: reads no engine
\* state and starts no getConfig call
Optimize(userProfile, availableChests) ==
    /\ ~optimization.done
    /\ optimization' = [done |-> TRUE, userProfile |-> userProfile,
                        availableChests |-> availableChests,
                        result |-> optimize(userProfile, availableChests)]
    /\ UNCHANGED <<userData, today, analysis>>
    /\ UNCHANGED engineVars
    /\ UNCHANGED serviceVars

\* Requests reaching the engine: one tier, or the endpoint's default list
EndpointRequests ==
    {<<chestType>> : chestType \in RequestTiers} \cup {<<"silver", "gold", "platinum">>}

NextOptimize ==
    \/ \E userProfile \in Profiles, availableChests \in EndpointRequests :
            Optimize(userProfile, availableChests)
    \/ Initialize
    \/ \E key \in Keys : GetStart("c1", key)
    \/ RedisThrow("c1")
    \/ RedisReply("c1")
    \/ \E value \in Values : OriginSuccess("c1", value)
    \/ OriginNoSuccess("c1")
    \/ \E failure \in OriginFailures : OriginThrow("c1", failure)
    \/ Return("c1")

SpecOptimize == Init /\ [][NextOptimize]_vars

\* ------------------------------------------------------------------------
\* ChestOptimizer specification: optimize applied to every profile and every
\* tier list of at most MaxTiers ids, on an engine that does nothing else
\* ------------------------------------------------------------------------
\* A freshly constructed engine beside an empty distributed cache
InitFresh ==
    /\ InitIdleAnalyzer
    /\ InitEngine
    /\ redisStore = [rk \in {RedisKey(k) : k \in Keys} |-> RedisNil]

NextChests ==
    \E userProfile \in Profiles, availableChests \in SeqsUpTo(RequestTiers, MaxTiers) :
        Optimize(userProfile, availableChests)

SpecChests == InitFresh /\ [][NextChests]_vars

\* ------------------------------------------------------------------------
\* Claims on BehaviorAnalyzer
\* ------------------------------------------------------------------------
EmptyHistory ==
    /\ userData.depositHistory = <<>>
    /\ userData.betHistory = <<>>
    /\ userData.sessionHistory = <<>>

\* C1: for every activity history, the score returned by analyze is within
\* [0,100].
C1_ScoreInRange ==
    analysis.done => analysis.result.score >= 0 /\ analysis.result.score <= 100

\* C1 witness: an analysed history whose increments add up to more than 100,
\* so that the upper clamp acted.
C1_Witness ==
    /\ analysis.done
    /\ ScoreSum(analysis.result.details) > 100
    /\ analysis.result.score = 100

\* C2 (as stated): analyze on an empty activity history returns score 50,
\* risk level medium and an empty pattern set.
C2_Original ==
    (analysis.done /\ EmptyHistory) =>
        /\ analysis.result.score = 50
        /\ analysis.result.riskLevel = "medium"
        /\ analysis.result.patterns = <<>>

\* C2 (amended): analyze on an empty activity history never returns 50 nor
\* an empty pattern set.  The zero volatility of the empty deposit analysis
\* is below 0.5 (+5) and the zero win rate is below 0.3 (frequent_loser).
\* Without a last-activity date, or with one 7 to 30 days old: score 55,
\* risk level high, patterns <<frequent_loser>>; older than 30 days: the
\* same with inactive_user added; less than 1 day old: score 60, medium;
\* 1 to 7 days old: score 70, medium.
C2_EmptyHistory ==
    (analysis.done /\ EmptyHistory) =>
        LET last == userData.lastActivity
            days == today - last.v
            r == analysis.result
        IN /\ (~last.some \/ (days >= 7 /\ days <= 30)) =>
                  r.score = 55 /\ r.riskLevel = "high"
                  /\ r.patterns = <<"frequent_loser">>
           /\ (last.some /\ days > 30) =>
                  r.score = 55 /\ r.riskLevel = "high"
                  /\ r.patterns = <<"frequent_loser", "inactive_user">>
           /\ (last.some /\ days < 1) =>
                  r.score = 60 /\ r.riskLevel = "medium"
                  /\ r.patterns = <<"frequent_loser">>
           /\ (last.some /\ days >= 1 /\ days < 7) =>
                  r.score = 70 /\ r.riskLevel = "medium"
                  /\ r.patterns = <<"frequent_loser">>

\* C2 witness: an empty history without dates has been analysed.
C2_Witness ==
    /\ analysis.done
    /\ EmptyHistory
    /\ ~userData.lastActivity.some
    /\ ~userData.registrationDate.some
    /\ analysis.result.score = 55

\* ------------------------------------------------------------------------
\* Claims on getConfig
\* ------------------------------------------------------------------------
Running == {c \in Calls : calls[c].pc # "idle"}

\* C3: a get(k) issued less than the TTL (300 s) after a successful origin
\* fetch of k returns the cached value without contacting the origin.
C3_FreshFetchServedLocally ==
    \A c \in Running :
        calls[c].fetchedFresh =>
            /\ calls[c].pc = "done"
            /\ calls[c].path = "local"
            /\ calls[c].result.some
            /\ ~calls[c].contacted

\* C3 witness: a call issued at least TTL - 1 ms after construction, within
\* the TTL of an origin fetch, was served from the in-process cache.
C3_Witness ==
    \E c \in Running :
        /\ calls[c].fetchedFresh
        /\ calls[c].path = "local"
        /\ now >= 300 * 1000 - 1

\* C4 (as stated): a get(k) issued after a cache-clear request is not served
\* from the in-process cache; it goes to the lower tiers again.
C4_ClearForcesRefetch ==
    \A c \in Running : calls[c].afterClear => calls[c].path # "local"

\* C5 (as stated): a value fetched from the origin is also in the
\* distributed cache, under the namespaced key, when the call returns.
C5_OriginWritesBothTiers ==
    \A c \in Running :
        (calls[c].pc = "done" /\ calls[c].path = "origin" /\ redisClient = "open") =>
            redisStore["config_cache:" \o calls[c].key]
                = RedisStr("\"" \o calls[c].result.v \o "\"")

\* C6: get(k) never raises; an origin that is unreachable, times out or
\* answers without success makes it return null.
C6_NeverRaises ==
    \A c \in Calls :
        /\ ~calls[c].raised
        /\ (calls[c].pc = "done"
            /\ calls[c].path \in {"timeout", "unreachable", "http_error", "nosuccess"})
              => calls[c].result = Null

\* C6 witness: a call whose origin request timed out has returned null.
C6_Witness ==
    \E c \in Calls :
        /\ calls[c].pc = "done"
        /\ calls[c].path = "timeout"
        /\ calls[c].contacted
        /\ calls[c].result = Null

\* C7: the in-process cache serves a call only from an entry younger than
\* the TTL; with an absent entry or one aged TTL or more the call goes on
\* to the distributed cache or the origin.
C7_OnlyFreshEntriesHit ==
    \A c \in Running :
        /\ calls[c].path = "local" => calls[c].atStart = "fresh"
        /\ calls[c].atStart \in {"absent", "expired"} =>
              \/ calls[c].pc \in {"redis", "origin"}
              \/ calls[c].pc = "done" /\ calls[c].path # "local"

\* C7 witness: a call that found an expired entry is waiting for the origin.
C7_Witness ==
    \E c \in Running :
        /\ calls[c].atStart = "expired"
        /\ calls[c].pc = "origin"
        /\ localCache[calls[c].key].present

WellFormedJSON(text) == \E v \in Values : text = "\"" \o v \o "\""
ValueOfJSON(text) == CHOOSE v \in Values : text = "\"" \o v \o "\""

\* C8 (as stated): whenever the distributed cache holds a (non-empty) value
\* under the namespaced key, the call returns a value by the
\* distributed-cache path without contacting the origin.
C8_Original ==
    \A c \in Running :
        (calls[c].redisRead.present /\ calls[c].redisRead.text # "") =>
            /\ calls[c].pc = "done"
            /\ calls[c].path = "redis"
            /\ calls[c].result.some
            /\ ~calls[c].contacted

\* C8 (amended): when the distributed-cache read returns a non-empty string
\* that parses as JSON, the call returns the parsed value, writes it to the
\* in-process cache with the current timestamp and does not contact the
\* origin; a non-empty string that is not JSON makes it return null with no
\* cache write and no origin contact; the empty string is a miss and the
\* call goes on to the origin.
C8_RedisHit ==
    [][\A c \in Calls :
         (calls[c].pc = "redis" /\ calls'[c].pc # "redis"
          /\ calls'[c].redisRead.present) =>
            LET text == calls'[c].redisRead.text
                key == calls[c].key
            IN IF text = ""
               THEN /\ calls'[c].pc = "origin"
                    /\ calls'[c].contacted
                    /\ localCache' = localCache
               ELSE IF WellFormedJSON(text)
               THEN /\ calls'[c].pc = "done"
                    /\ calls'[c].result = Val(ValueOfJSON(text))
                    /\ ~calls'[c].contacted
                    /\ localCache'[key] = [present |-> TRUE,
                                           value |-> ValueOfJSON(text),
                                           timestamp |-> now]
               ELSE /\ calls'[c].pc = "done"
                    /\ calls'[c].result = Null
                    /\ ~calls'[c].contacted
                    /\ localCache' = localCache]_vars

\* C8 witness: a call has returned the value parsed from the distributed
\* cache and the in-process cache holds it.
C8_Witness ==
    \E c \in Running :
        /\ calls[c].pc = "done"
        /\ calls[c].path = "redis"
        /\ calls[c].redisRead = RedisStr("\"v1\"")
        /\ calls[c].result = Val("v1")
        /\ localCache[calls[c].key].present
        /\ localCache[calls[c].key].value = "v1"

\* C9: under every interleaving of concurrent calls, an in-process entry
\* changes only by being replaced whole with the {value, timestamp} pair of
\* the one call that completes in that step.
C9_WholeEntries ==
    [][\A k \in Keys :
         localCache'[k] # localCache[k] =>
            \E c \in Calls :
                /\ calls[c].pc \in {"redis", "origin"}
                /\ calls[c].key = k
                /\ calls'[c].pc = "done"
                /\ calls'[c].result.some
                /\ localCache'[k] = [present |-> TRUE,
                                     value |-> calls'[c].result.v,
                                     timestamp |-> now]]_vars

\* C9 witness: two calls on the same key, both started while the entry was
\* absent, have both fetched from the origin with different values, and the
\* entry is the pair of one of them.
C9_Witness ==
    \E c1, c2 \in Calls :
        /\ c1 # c2
        /\ calls[c1].pc = "done" /\ calls[c2].pc = "done"
        /\ calls[c1].path = "origin" /\ calls[c2].path = "origin"
        /\ calls[c1].key = calls[c2].key
        /\ calls[c1].atStart = "absent" /\ calls[c2].atStart = "absent"
        /\ calls[c1].result # calls[c2].result
        /\ localCache[calls[c1].key].present
        /\ localCache[calls[c1].key].value = calls[c2].result.v

\* ------------------------------------------------------------------------
\* Claims on ChestOptimizer
\* ------------------------------------------------------------------------
\* C10 (as stated): optimize resolves every tier through getConfig, so each
\* tier of the returned distribution has been returned by getConfig, which
\* leaves an entry for it in the in-process cache.
C10_TiersResolved ==
    optimization.done =>
        \A i \in 1..Len(optimization.result.chests) :
            /\ optimization.result.chests[i].type \in Keys
            /\ localCache[optimization.result.chests[i].type].present

\* ------------------------------------------------------------------------
\* Claims on ChestOptimizer
\* ------------------------------------------------------------------------
\* C11: for every user profile and every list of requested tier ids, each
\* entry of the distribution returned by optimize has potential > 0.3, and
\* the entries are in non-increasing order of expectedValue.
C11_FilteredAndSorted ==
    optimization.done =>
        LET chests == optimization.result.chests
        IN /\ \A i \in 1..Len(chests) : Gt(chests[i].potential, 3, 10)
           /\ \A i \in 1..(Len(chests) - 1) :
                ~RGt(chests[i + 1].expectedValue, chests[i].expectedValue)

\* C12: the confidence returned by optimize is always within [0, 1], and for
\* a profile with history length <= 10 (or no history), score <= 60 and a
\* non-empty distribution it equals exactly 0.6.
C12_Confidence ==
    optimization.done =>
        LET confidence == optimization.result.confidence
            userProfile == optimization.userProfile
        IN /\ confidence.d > 0
           /\ 0 <= confidence.n
           /\ confidence.n <= confidence.d
           /\ ( /\ (userProfile.historyLength.some => userProfile.historyLength.v <= 10)
                /\ userProfile.behaviorScore.some
                /\ userProfile.behaviorScore.v <= 60
                /\ Len(optimization.result.chests) > 0 )
              => confidence.n * 10 = 6 * confidence.d

\* A profile with ten history items and score 50 got a non-empty distribution
C12_Witness ==
    /\ optimization.done
    /\ optimization.userProfile.historyLength = Some(10)
    /\ optimization.userProfile.behaviorScore = Some(50)
    /\ Len(optimization.result.chests) > 0
    /\ optimization.result.confidence = Rat(6, 10)

\* The requested ids that have a configuration in the tier table
Configured(availableChests) ==
    {availableChests[j] : j \in 1..Len(availableChests)}
        \cap DOMAIN getGamificationConfigs

\* C14: optimize does not fail on an unrecognized tier id: the tier ids of the
\* returned distribution are among the requested ids that have a
\* configuration, and a request naming only unknown tiers yields an empty
\* distribution with total expected value 0.
C14_UnknownTiersOmitted ==
    optimization.done =>
        /\ \A i \in 1..Len(optimization.result.chests) :
              optimization.result.chests[i].type
                  \in Configured(optimization.availableChests)
        /\ Configured(optimization.availableChests) = {}
              => /\ optimization.result.chests = <<>>
                 /\ optimization.result.expectedValue = Rat(0, 1)

\* A request mixing two unknown ids with silver returned silver alone
C14_Witness ==
    /\ optimization.done
    /\ optimization.availableChests = <<"diamond", "silver", "constructor">>
    /\ Len(optimization.result.chests) = 1
    /\ optimization.result.chests[1].type = "silver"

\* ------------------------------------------------------------------------
\* RewardCalculator
\* ------------------------------------------------------------------------
\* userActivity: recentActivity and weeklyVolume may be missing (undefined
\* compares false with every threshold; a missing recentActivity is the NaN
\* the comparison converts it to)
UserActivities ==
    [ recentActivity : {NaN, Rat(8, 10), Rat(9, 10)},
      loyaltyLevel : {"vip", "premium", "regular"},
      weeklyVolume : {Missing, Some(1000), Some(1500)} ]

\* getBaseRewards: the hard-coded reward tables
rewardTables ==
    [ silver |-> << [type |-> "coins", value |-> 10, probability |-> Rat(8, 10)],
                    [type |-> "bonus", value |-> 5, probability |-> Rat(6, 10)],
                    [type |-> "free_spins", value |-> 3, probability |-> Rat(4, 10)] >>,
      gold |-> << [type |-> "coins", value |-> 25, probability |-> Rat(7, 10)],
                  [type |-> "bonus", value |-> 15, probability |-> Rat(5, 10)],
                  [type |-> "free_spins", value |-> 10, probability |-> Rat(3, 10)],
                  [type |-> "cashback", value |-> 20, probability |-> Rat(2, 10)] >>,
      platinum |-> << [type |-> "coins", value |-> 50, probability |-> Rat(6, 10)],
                      [type |-> "bonus", value |-> 30, probability |-> Rat(4, 10)],
                      [type |-> "free_spins", value |-> 20, probability |-> Rat(3, 10)],
                      [type |-> "cashback", value |-> 50, probability |-> Rat(2, 10)],
                      [type |-> "vip_points", value |-> 100, probability |-> Rat(1, 10)] >> ]

\* Values Math.random() may return, in [0, 1)
RandomValues == {Rat(0, 1), Rat(1, 2), Rat(9, 10)}

\* rewardTables[chestType] is truthy but no array: an inherited property of
\* the table object, whose filter is not a function
TableIsNoArray(chestType) ==
    chestType \notin DOMAIN rewardTables /\ chestType \in ObjectPrototypeKeys

\* rewardTables[chestType] || rewardTables.silver
TableOf(chestType) ==
    IF chestType \in DOMAIN rewardTables THEN rewardTables[chestType]
    ELSE rewardTables.silver

\* The sequences of Math.random() results one getBaseRewards call may see
Draws(chestType) ==
    IF TableIsNoArray(chestType) THEN {<<>>}
    ELSE [1..Len(TableOf(chestType)) -> RandomValues]

\* table.filter(reward => Math.random() < reward.probability)
RECURSIVE FilterByDraws(_, _)
FilterByDraws(table, draws) ==
    IF Len(table) = 0 THEN <<>>
    ELSE (IF RGt(Head(table).probability, Head(draws)) THEN <<Head(table)>> ELSE <<>>)
         \o FilterByDraws(Tail(table), Tail(draws))

getBaseRewards(chestType, draws) == FilterByDraws(TableOf(chestType), draws)

\* calculateBonusMultiplier without the else: a premium bonus on top of vip
calculateBonusMultiplierStacked(userActivity) ==
    LET hundredths == 100
            + Inc(Gt(userActivity.recentActivity, 8, 10), 20)
            + Inc(userActivity.loyaltyLevel = "vip", 30)
            + Inc(userActivity.loyaltyLevel \in {"vip", "premium"}, 15)
            + Inc(userActivity.weeklyVolume.some
                  /\ userActivity.weeklyVolume.v > 1000, 10)
    IN Rat(hundredths, 100)

\* In hundredths: 1.0, +0.2, +0.3 or +0.15, +0.1
calculateBonusMultiplier(userActivity) ==
    LET hundredths == 100
            + Inc(Gt(userActivity.recentActivity, 8, 10), 20)
            + (IF userActivity.loyaltyLevel = "vip" THEN 30
               ELSE IF userActivity.loyaltyLevel = "premium" THEN 15
               ELSE 0)
            + Inc(userActivity.weeklyVolume.some
                  /\ userActivity.weeklyVolume.v > 1000, 10)
    IN Rat(hundredths, 100)

\* baseRewards.map(reward => ({...reward, value: reward.value * bonusMultiplier}))
Scaled(reward, bonusMultiplier) ==
    [type |-> reward.type,
     value |-> RMul(bonusMultiplier, reward.value, 1),
     probability |-> reward.probability]

RECURSIVE SumValues(_)
SumValues(finalRewards) ==
    IF Len(finalRewards) = 0 THEN Rat(0, 1)
    ELSE RAdd(SumValues(SubSeq(finalRewards, 1, Len(finalRewards) - 1)),
              finalRewards[Len(finalRewards)].value)

\* RewardCalculator.calculate, for a chestType whose table is an array
calculate(userActivity, chestType, draws) ==
    LET baseRewards == getBaseRewards(chestType, draws)
        bonusMultiplier == calculateBonusMultiplier(userActivity)
        finalRewards == [i \in 1..Len(baseRewards) |->
                            Scaled(baseRewards[i], bonusMultiplier)]
    IN [items |-> finalRewards,
        totalValue |-> SumValues(finalRewards),
        bonusMultiplier |-> bonusMultiplier]

\* ------------------------------------------------------------------------
\* RewardCalculator specification: calculate applied to every activity, tier
\* id and sequence of random draws, on an engine that does nothing else
\* ------------------------------------------------------------------------
\* calculateRewards -> RewardCalculator.calculate; table.filter raises a
\* TypeError when the table is no array, and the engine rethrows it
CalculateRewards(userActivity, chestType, draws) ==
    /\ ~rewards.done
    /\ rewards' = IF TableIsNoArray(chestType)
                  THEN [done |-> TRUE, userActivity |-> userActivity,
                        chestType |-> chestType, threw |-> TRUE]
                  ELSE [done |-> TRUE, userActivity |-> userActivity,
                        chestType |-> chestType, threw |-> FALSE,
                        result |-> calculate(userActivity, chestType, draws)]
    /\ UNCHANGED <<potentials, response>>
    /\ UNCHANGED analyzerVars
    /\ UNCHANGED engineVars

NextRewards ==
    \E userActivity \in UserActivities, chestType \in RequestTiers :
        \E draws \in Draws(chestType) :
            CalculateRewards(userActivity, chestType, draws)

SpecRewards == InitFresh /\ [][NextRewards]_vars

\* ------------------------------------------------------------------------
\* Claims on RewardCalculator
\* ------------------------------------------------------------------------
\* C13: the bonus multiplier of calculate is 1.0 plus every applicable bonus
\* (+0.2 if recentActivity > 0.8; +0.3 if loyaltyLevel is vip, otherwise
\* +0.15 if premium; +0.1 if weeklyVolume > 1000), so it is at least 1.0,
\* and it is exactly 1.6 for {recentActivity 0.9, vip, weeklyVolume 1500}.
C13_BonusMultiplier ==
    (rewards.done /\ ~rewards.threw) =>
        LET userActivity == rewards.userActivity
            bonusMultiplier == rewards.result.bonusMultiplier
            activityBonus == IF userActivity.recentActivity = Rat(9, 10)
                             THEN 20 ELSE 0
            loyaltyBonus == IF userActivity.loyaltyLevel = "vip" THEN 30
                            ELSE IF userActivity.loyaltyLevel = "premium" THEN 15
                            ELSE 0
            volumeBonus == IF userActivity.weeklyVolume = Some(1500)
                           THEN 10 ELSE 0
        IN /\ bonusMultiplier.n * 100
                = (100 + activityBonus + loyaltyBonus + volumeBonus) * bonusMultiplier.d
           /\ bonusMultiplier.n >= bonusMultiplier.d
           /\ ( /\ userActivity.recentActivity = Rat(9, 10)
                /\ userActivity.loyaltyLevel = "vip"
                /\ userActivity.weeklyVolume = Some(1500) )
              => bonusMultiplier.n * 10 = 16 * bonusMultiplier.d

\* calculate ran for {recentActivity 0.9, vip, weeklyVolume 1500} with 1.6
C13_Witness ==
    /\ rewards.done
    /\ ~rewards.threw
    /\ rewards.userActivity = [recentActivity |-> Rat(9, 10),
                               loyaltyLevel |-> "vip",
                               weeklyVolume |-> Some(1500)]
    /\ rewards.result.bonusMultiplier = Rat(160, 100)

\* C15: calculate with an unrecognized tier id does not fail: it draws the
\* reward items from the silver table, so every returned item is an entry
\* of the silver table scaled by the multiplier.
C15_UnknownTierGetsSilver ==
    (rewards.done /\ rewards.chestType \notin DOMAIN rewardTables) =>
        /\ ~rewards.threw
        /\ \A i \in 1..Len(rewards.result.items) :
              \E j \in 1..Len(rewardTables.silver) :
                  rewards.result.items[i]
                      = Scaled(rewardTables.silver[j], rewards.result.bonusMultiplier)

\* ------------------------------------------------------------------------
\* HTTP server: the three POST endpoints and GET /health
\* ------------------------------------------------------------------------
SERVICE_NAME == "gamification-service"

\* A userId field of a request body: absent, or a string
NoUserId == [present |-> FALSE, id |-> ""]
UserId(id) == [present |-> TRUE, id |-> id]
UserIds == {NoUserId, UserId(""), UserId("u1")}

\* !holder.userId: an absent field and the empty string are both falsy
Falsy(userId) == ~userId.present \/ userId.id = ""

\* A chestType field: absent, or a tier id
NoChestType == [present |-> FALSE, id |-> ""]
ChestType(id) == [present |-> TRUE, id |-> id]

\* An availableChests field: absent, null, or an array of tier ids
ChestLists ==
    {[kind |-> "absent", list |-> <<>>], [kind |-> "null", list |-> <<>>]}
        \cup {[kind |-> "array", list |-> l] : l \in EndpointRequests}

\* Bodies of POST analyze-behavior: the body is the userData
AnalyzeBodies ==
    [ userId : UserIds,
      depositHistoryIsNull : BOOLEAN,
      userData : [ depositHistory : {<<>>} \cup {<<d>> : d \in DepositRecords},
                   betHistory : {<<>>},
                   sessionHistory : {<<>>},
                   registrationDate : {Missing},
                   lastActivity : {Missing, Some(60)} ] ]

\* Bodies of POST optimize-chests
OptimizeBodies ==
    [ hasUserProfile : BOOLEAN,
      userId : UserIds,
      userProfile : [ behaviorScore : {Some(50), Some(90)},
                      riskLevel : {"low", "very_high"},
                      historyLength : {Missing} ],
      availableChests : ChestLists ]

\* Bodies of POST calculate-rewards
RewardBodies ==
    [ hasUserActivity : BOOLEAN,
      userId : UserIds,
      userActivity : [ recentActivity : {NaN, Rat(9, 10)},
                       loyaltyLevel : {"vip"},
                       weeklyVolume : {Some(1500)} ],
      chestType : {NoChestType} \cup {ChestType(t) : t \in RequestTiers} ]

\* GamificationEngine.analyzeUserBehavior
analyzeUserBehavior(userId, data, day) ==
    LET result == analyze(data, day)
    IN [userId |-> userId,
        behaviorScore |-> result.score,
        riskLevel |-> result.riskLevel,
        patterns |-> result.patterns,
        recommendations |-> result.recommendations]

\* GamificationEngine.optimizeChestDistribution
optimizeChestDistribution(userId, userProfile, availableChests) ==
    LET result == optimize(userProfile, availableChests)
    IN [userId |-> userId,
        recommendedChests |-> result.chests,
        expectedValue |-> result.expectedValue,
        confidence |-> result.confidence,
        reasoning |-> result.reasoning]

\* GamificationEngine.calculateRewards
calculateRewards(userId, userActivity, chestType, draws) ==
    LET result == calculate(userActivity, chestType, draws)
    IN [userId |-> userId,
        chestType |-> chestType,
        rewards |-> result.items,
        totalValue |-> result.totalValue,
        bonusMultiplier |-> result.bonusMultiplier]

\* A handler that validates nothing
MissingNever(present, userId) == FALSE

\* The validation of the handlers: !holder || !holder.userId
MissingRequired(present, userId) == ~present \/ Falsy(userId)

Rejected(endpoint, body) ==
    [done |-> TRUE, endpoint |-> endpoint, body |-> body, invoked |-> FALSE,
     threw |-> FALSE, status |-> 400, payload |-> [status |-> "error"]]

\* The catch block of a handler
Failed(endpoint, body) ==
    [done |-> TRUE, endpoint |-> endpoint, body |-> body, invoked |-> TRUE,
     threw |-> TRUE, status |-> 500, payload |-> [status |-> "error"]]

\* res.json(...): the status stays at its default, 200
Succeeded(endpoint, body, data) ==
    [done |-> TRUE, endpoint |-> endpoint, body |-> body, invoked |-> TRUE,
     threw |-> FALSE, status |-> 200,
     payload |-> [status |-> "success", data |-> data]]

\* POST /api/v1/gamification-service/analyze-behavior; analyzeDeposits reads
\* depositHistory.length, a TypeError when the body carries null there
PostAnalyzeBehavior(body, day) ==
    /\ ~response.done
    /\ response' =
         IF MissingRequired(TRUE, body.userId)
         THEN Rejected("analyze-behavior", body)
         ELSE IF body.depositHistoryIsNull
              THEN Failed("analyze-behavior", body)
              ELSE Succeeded("analyze-behavior", body,
                             analyzeUserBehavior(body.userId.id, body.userData, day))
    /\ UNCHANGED <<potentials, rewards>>
    /\ UNCHANGED analyzerVars
    /\ UNCHANGED engineVars

\* POST /api/v1/gamification-service/optimize-chests; the list defaults to
\* the three tiers when absent, and a null list is not iterable (TypeError)
PostOptimizeChests(body) ==
    /\ ~response.done
    /\ response' =
         IF MissingRequired(body.hasUserProfile, body.userId)
         THEN Rejected("optimize-chests", body)
         ELSE IF body.availableChests.kind = "null"
              THEN Failed("optimize-chests", body)
              ELSE Succeeded("optimize-chests", body,
                     optimizeChestDistribution(
                         body.userId.id, body.userProfile,
                         IF body.availableChests.kind = "absent"
                         THEN <<"silver", "gold", "platinum">>
                         ELSE body.availableChests.list))
    /\ UNCHANGED <<potentials, rewards>>
    /\ UNCHANGED analyzerVars
    /\ UNCHANGED engineVars

\* The chestType the handler passes on: 'silver' when the field is absent
ChestTypeOf(body) == IF body.chestType.present THEN body.chestType.id ELSE "silver"

\* POST /api/v1/gamification-service/calculate-rewards
PostCalculateRewards(body, draws) ==
    /\ ~response.done
    /\ response' =
         IF MissingRequired(body.hasUserActivity, body.userId)
         THEN Rejected("calculate-rewards", body)
         ELSE IF TableIsNoArray(ChestTypeOf(body))
              THEN Failed("calculate-rewards", body)
              ELSE Succeeded("calculate-rewards", body,
                     calculateRewards(body.userId.id, body.userActivity,
                                      ChestTypeOf(body), draws))
    /\ UNCHANGED <<potentials, rewards>>
    /\ UNCHANGED analyzerVars
    /\ UNCHANGED engineVars

\* What redisClient.ping() may do: resolve 'PONG', or reject (a client that
\* never connected always rejects)
PingOutcomes(client) ==
    IF client = "open" THEN {"PONG", "rejected"} ELSE {"rejected"}

\* getMetrics whose catch block throws the error on
getMetricsRethrown(client, ping, size) ==
    IF client = "null"
    THEN [threw |-> FALSE, cache_hits |-> size, redis_connected |-> FALSE, error |-> FALSE]
    ELSE IF ping = "PONG"
         THEN [threw |-> FALSE, cache_hits |-> size, redis_connected |-> TRUE, error |-> FALSE]
         ELSE [threw |-> TRUE, cache_hits |-> size, redis_connected |-> FALSE, error |-> TRUE]

\* getMetrics: a rejected ping ends in the catch block, which returns
\* { error } instead of throwing
getMetrics(client, ping, size) ==
    IF client = "null"
    THEN [threw |-> FALSE, cache_hits |-> size, redis_connected |-> FALSE, error |-> FALSE]
    ELSE IF ping = "PONG"
         THEN [threw |-> FALSE, cache_hits |-> size, redis_connected |-> TRUE, error |-> FALSE]
         ELSE [threw |-> FALSE, cache_hits |-> size, redis_connected |-> FALSE, error |-> TRUE]

\* GET /health
GetHealth(ping) ==
    /\ ~response.done
    /\ LET metrics == getMetrics(redisClient, ping,
                                 Cardinality({k \in Keys : localCache[k].present}))
       IN response' =
            IF metrics.threw
            THEN [done |-> TRUE, endpoint |-> "health", client |-> redisClient,
                  status |-> 503,
                  payload |-> [status |-> "degraded", service |-> SERVICE_NAME]]
            ELSE [done |-> TRUE, endpoint |-> "health", client |-> redisClient,
                  status |-> 200,
                  payload |-> [status |-> "ok", service |-> SERVICE_NAME,
                               components |-> metrics]]
    /\ UNCHANGED <<potentials, rewards>>
    /\ UNCHANGED analyzerVars
    /\ UNCHANGED engineVars

\* ------------------------------------------------------------------------
\* Server specification: one request is served by an engine that may have
\* been initialised and whose getConfig serves one caller
\* ------------------------------------------------------------------------
NextHttp ==
    \/ \E body \in AnalyzeBodies, day \in EvalDays : PostAnalyzeBehavior(body, day)
    \/ \E body \in OptimizeBodies : PostOptimizeChests(body)
    \/ \E body \in RewardBodies :
          \E draws \in Draws(ChestTypeOf(body)) : PostCalculateRewards(body, draws)
    \/ \E ping \in PingOutcomes(redisClient) : GetHealth(ping)
    \/ Initialize
    \/ \E key \in Keys : GetStart("c1", key)
    \/ RedisThrow("c1")
    \/ RedisReply("c1")
    \/ \E value \in Values : OriginSuccess("c1", value)
    \/ OriginNoSuccess("c1")
    \/ \E failure \in OriginFailures : OriginThrow("c1", failure)
    \/ Return("c1")

SpecHttp == Init /\ [][NextHttp]_vars

\* ------------------------------------------------------------------------
\* Claims on the HTTP server
\* ------------------------------------------------------------------------
PostEndpoints == {"analyze-behavior", "optimize-chests", "calculate-rewards"}

\* The holder of userId is in the body (the body itself for analyze-behavior)
HasHolder(r) ==
    IF r.endpoint = "optimize-chests" THEN r.body.hasUserProfile
    ELSE IF r.endpoint = "calculate-rewards" THEN r.body.hasUserActivity
    ELSE TRUE

\* C16: on each of the three POST endpoints a request without userId (no
\* holder, no field, or an empty value) is answered 400 and the engine
\* operation is not invoked; a request with userId invokes it and is
\* answered 200 when it returns and 500 exactly when it throws.
C16_StatusMapping ==
    (response.done /\ response.endpoint \in PostEndpoints) =>
        IF ~HasHolder(response) \/ ~response.body.userId.present
              \/ response.body.userId.id = ""
        THEN response.status = 400 /\ ~response.invoked
        ELSE /\ response.invoked
             /\ response.status = (IF response.threw THEN 500 ELSE 200)
             /\ response.threw =
                  CASE response.endpoint = "analyze-behavior" ->
                          response.body.depositHistoryIsNull
                    [] response.endpoint = "optimize-chests" ->
                          response.body.availableChests.kind = "null"
                    [] response.endpoint = "calculate-rewards" ->
                          response.body.chestType = ChestType("constructor")

\* An optimize-chests request naming only an unknown tier was answered 200
\* with an empty recommendation
C16_Witness ==
    /\ response.done
    /\ response.endpoint = "optimize-chests"
    /\ response.body.availableChests = [kind |-> "array", list |-> <<"diamond">>]
    /\ response.status = 200
    /\ response.payload.data.recommendedChests = <<>>

\* C17: GET /health answers 200 with status 'ok' and service
\* 'gamification-service' in every engine state: no Redis client, a
\* connected one, or one whose ping fails.
C17_HealthAlwaysOk ==
    (response.done /\ response.endpoint = "health") =>
        /\ response.status = 200
        /\ response.payload.status = "ok"
        /\ response.payload.service = "gamification-service"

\* /health was served while the ping of an existing client failed
C17_Witness ==
    /\ response.done
    /\ response.endpoint = "health"
    /\ response.client = "closed"
    /\ response.status = 200
    /\ response.payload.components.error

\* ------------------------------------------------------------------------
\* Further claims on BehaviorAnalyzer
\* ------------------------------------------------------------------------
\* The ten predicates of the composite score with their increments, read
\* from the analyses returned in details
ScorePredicates(details) ==
    { [name |-> "deposit frequency > 0.1", points |-> 10,
       holds |-> Gt(details.depositAnalysis.frequency, 1, 10)],
      [name |-> "average deposit > 100", points |-> 10,
       holds |-> Gt(details.depositAnalysis.averageAmount, 100, 1)],
      [name |-> "volatility < 0.5", points |-> 5,
       holds |-> Lt(details.depositAnalysis.volatilitySq, 1, 4)],
      [name |-> "win rate > 0.4", points |-> 10,
       holds |-> Gt(details.bettingAnalysis.winRate, 4, 10)],
      [name |-> "bet frequency > 1", points |-> 5,
       holds |-> Gt(details.bettingAnalysis.frequency, 1, 1)],
      [name |-> "conservative risk profile", points |-> 10,
       holds |-> details.bettingAnalysis.riskProfile = "conservative"],
      [name |-> "session frequency > 0.5", points |-> 5,
       holds |-> Gt(details.sessionAnalysis.frequency, 5, 10)],
      [name |-> "average session duration > 30", points |-> 5,
       holds |-> Gt(details.sessionAnalysis.averageDuration, 30, 1)],
      [name |-> "activity level high", points |-> 10,
       holds |-> details.temporalAnalysis.activityLevel = "high"],
      [name |-> "days since last activity < 7", points |-> 5,
       holds |-> Lt(details.temporalAnalysis.daysSinceLastActivity, 7, 1)] }

RECURSIVE SumPoints(_)
SumPoints(predicates) ==
    IF predicates = {} THEN 0
    ELSE LET p == CHOOSE q \in predicates : TRUE
         IN p.points + SumPoints(predicates \ {p})

\* C18: the composite score equals min(100, max(0, 50 + the sum of the
\* increments of exactly those of the ten predicates that hold)); each
\* predicate contributes independently of the others.
C18_ScoreIsSumOfIncrements ==
    analysis.done =>
        LET holding == {p \in ScorePredicates(analysis.result.details) : p.holds}
            total == 50 + SumPoints(holding)
        IN analysis.result.score
             = (IF total > 100 THEN 100 ELSE IF total < 0 THEN 0 ELSE total)

\* An analysis in which both deposit bonuses apply while other predicates
\* fail, with a score below the clamp
C18_Witness ==
    /\ analysis.done
    /\ Gt(analysis.result.details.depositAnalysis.frequency, 1, 10)
    /\ Gt(analysis.result.details.depositAnalysis.averageAmount, 100, 1)
    /\ ~Gt(analysis.result.details.bettingAnalysis.winRate, 4, 10)
    /\ analysis.result.score > 70
    /\ analysis.result.score < 100

\* The two base recommendations of a risk level
BaseRecommendations(riskLevel) ==
    IF riskLevel = "low" THEN <<"Oferecer baus premium", "Programa VIP">>
    ELSE IF riskLevel = "medium"
         THEN <<"Baus padrao com bonus", "Promocoes moderadas">>
         ELSE <<"Baus basicos", "Monitoramento aumentado">>

\* The pattern-triggered recommendation of a pattern tag, if it has one
PatternRecommendation(tag) ==
    IF tag = "frequent_depositor" THEN <<"Programa de fidelidade">>
    ELSE IF tag = "inactive_user" THEN <<"Campanha de reativacao">>
    ELSE <<>>

RECURSIVE InTagOrder(_)
InTagOrder(patterns) ==
    IF Len(patterns) = 0 THEN <<>>
    ELSE PatternRecommendation(Head(patterns)) \o InTagOrder(Tail(patterns))

\* C20 (as stated): the recommendations list the two base recommendations
\* of the risk level first, followed by the pattern-triggered ones in the
\* order of their tags in the pattern set, so the loyalty programme
\* (frequent_depositor) precedes the reactivation campaign (inactive_user).
C20_Original ==
    analysis.done =>
        analysis.result.recommendations
            = BaseRecommendations(analysis.result.riskLevel)
              \o InTagOrder(analysis.result.patterns)

\* C20 (amended): the recommendations list the two base recommendations of
\* the risk level first, then the reactivation campaign if inactive_user
\* is among the patterns, then the loyalty programme if frequent_depositor
\* is: a fixed order, whatever the order of the tags.
C20_FixedOrder ==
    analysis.done =>
        LET patterns == analysis.result.patterns
            tags == {patterns[i] : i \in 1..Len(patterns)}
        IN analysis.result.recommendations
             = BaseRecommendations(analysis.result.riskLevel)
               \o (IF "inactive_user" \in tags
                   THEN <<"Campanha de reativacao">> ELSE <<>>)
               \o (IF "frequent_depositor" \in tags
                   THEN <<"Programa de fidelidade">> ELSE <<>>)

\* An analysis tagged frequent_depositor before inactive_user whose
\* recommendations end with the reactivation campaign, then the loyalty
\* programme
C20_Witness ==
    /\ analysis.done
    /\ \E i, j \in 1..Len(analysis.result.patterns) :
          /\ i < j
          /\ analysis.result.patterns[i] = "frequent_depositor"
          /\ analysis.result.patterns[j] = "inactive_user"
    /\ Len(analysis.result.recommendations) = 4
    /\ analysis.result.recommendations[3] = "Campanha de reativacao"
    /\ analysis.result.recommendations[4] = "Programa de fidelidade"

\* ------------------------------------------------------------------------
\* Potentials specification: calculateChestPotentials and the steps after it
\* applied to tier tables of every success rate, on an engine that does
\* nothing else
\* ------------------------------------------------------------------------
\* Success rates a tier configuration may carry, in [0, 1]
SuccessRates == {Rat(0, 1), Rat(1, 2), Rat(9, 10), Rat(1, 1)}

\* The configs argument of calculateChestPotentials: the hard-coded table, or
\* a table of two tiers with any of the success rates
ConfigTables ==
    {getGamificationConfigs}
        \cup { [ silver |-> [successRate |-> s, minValue |-> 10, maxValue |-> 50],
                 gold |-> [successRate |-> g, minValue |-> 25, maxValue |-> 100],
                 platinum |-> [successRate |-> Rat(3, 10), minValue |-> 50,
                               maxValue |-> 200] ]
               : s \in SuccessRates, g \in SuccessRates }

CalculatePotentials(userProfile, availableChests, configs) ==
    /\ ~potentials.done
    /\ potentials' = [done |-> TRUE, userProfile |-> userProfile,
                      availableChests |-> availableChests, configs |-> configs,
                      result |-> optimizeWith(userProfile, availableChests, configs)]
    /\ UNCHANGED <<rewards, response>>
    /\ UNCHANGED analyzerVars
    /\ UNCHANGED engineVars

NextPotentials ==
    \E userProfile \in Profiles, availableChests \in EndpointRequests,
       configs \in ConfigTables :
        CalculatePotentials(userProfile, availableChests, configs)

SpecPotentials == InitFresh /\ [][NextPotentials]_vars

C22_RedisFailureReachesOrigin ==
    \A c \in Calls :
        (calls[c].pc = "done" /\ calls[c].redisThrew) => calls[c].contacted

\* ------------------------------------------------------------------------
\* Claims on the reachable scores of BehaviorAnalyzer
\* ------------------------------------------------------------------------
\* C23: every score analyze produces is at least 50, so the lower clamp is
\* never active, and the risk level it returns is low, medium or high:
\* very_high is not reachable from analyze.
C23_ScoreAtLeastBase ==
    analysis.done =>
        /\ analysis.result.score >= 50
        /\ analysis.result.riskLevel \in {"low", "medium", "high"}

\* An analysis in which no scoring predicate held: the score is the base 50
\* and the risk level high
C23_Witness ==
    /\ analysis.done
    /\ analysis.result.score = 50
    /\ analysis.result.riskLevel = "high"

\* C24: the score is monotone in recency: of two histories that differ only
\* in the last-activity date, the one whose last activity is more recent
\* (a later date, fewer days since) never gets the lower score.
C24_MonotoneInRecency ==
    analysis.done =>
        \A other \in ActivityDates :
            ( /\ userData.lastActivity.some
              /\ other.some
              /\ other.v > userData.lastActivity.v )
            => analyze([userData EXCEPT !.lastActivity = other], today).score
                 >= analysis.result.score

\* ------------------------------------------------------------------------
\* Further claims on ChestOptimizer
\* ------------------------------------------------------------------------
\* The sum of expectedValue * quantity over a set of distribution entries
RECURSIVE SumOverEntries(_)
SumOverEntries(entries) ==
    IF entries = {} THEN Rat(0, 1)
    ELSE LET e == CHOOSE x \in entries : TRUE
         IN RAdd(SumOverEntries(entries \ {e}), RMul(e.expectedValue, e.quantity, 1))

\* C25: the distribution returned by optimize contains each tier id at most
\* once, also when the request names a tier several times, and the total
\* expected value is expectedValue * quantity summed over the distinct tiers.
C25_TiersUnique ==
    optimization.done =>
        LET chests == optimization.result.chests
            tiers == {chests[i].type : i \in 1..Len(chests)}
        IN /\ \A i, j \in 1..Len(chests) :
                 chests[i].type = chests[j].type => i = j
           /\ optimization.result.expectedValue
                = SumOverEntries({CHOOSE e \in {chests[i] : i \in 1..Len(chests)} :
                                      e.type = t : t \in tiers})

\* A request naming silver twice got a distribution with silver once
C25_Witness ==
    /\ optimization.done
    /\ optimization.availableChests = <<"silver", "gold", "silver">>
    /\ Len(optimization.result.chests) = 2
    /\ \E i \in 1..2 : optimization.result.chests[i].type = "silver"
    /\ \E i \in 1..2 : optimization.result.chests[i].type = "gold"

\* ------------------------------------------------------------------------
\* HTTP server: the test-suite endpoint
\* ------------------------------------------------------------------------
\* The three hard-coded scenarios.  Dates are day numbers counted from
\* 2025-01-01 (day 0), times of day dropped: 2025-04-01 is day 90,
\* 2025-05-01 day 120, 2025-06-01 day 151.
testScenarios ==
    << [ name |-> "Usuario VIP Ativo",
         userId |-> "VIP_USER_001",
         userData |->
           [ depositHistory |-> << [date |-> 151, amount |-> 500],
                                   [date |-> 155, amount |-> 300],
                                   [date |-> 160, amount |-> 800] >>,
             betHistory |-> << [date |-> 151, amount |-> 50, result |-> "win"],
                               [date |-> 152, amount |-> 100, result |-> "loss"],
                               [date |-> 153, amount |-> 75, result |-> "win"] >>,
             sessionHistory |-> << [startTime |-> 151, duration |-> Some(120)],
                                   [startTime |-> 152, duration |-> Some(90)] >>,
             registrationDate |-> Some(0),
             lastActivity |-> Some(164) ] ],
       [ name |-> "Usuario Casual",
         userId |-> "CASUAL_USER_001",
         userData |->
           [ depositHistory |-> << [date |-> 160, amount |-> 50] >>,
             betHistory |-> << [date |-> 160, amount |-> 10, result |-> "loss"],
                               [date |-> 161, amount |-> 15, result |-> "win"] >>,
             sessionHistory |-> << [startTime |-> 160, duration |-> Some(30)] >>,
             registrationDate |-> Some(151),
             lastActivity |-> Some(161) ] ],
       [ name |-> "Usuario Inativo",
         userId |-> "INACTIVE_USER_001",
         userData |->
           [ depositHistory |-> << [date |-> 120, amount |-> 100] >>,
             betHistory |-> << [date |-> 120, amount |-> 20, result |-> "loss"] >>,
             sessionHistory |-> << [startTime |-> 120, duration |-> Some(15)] >>,
             registrationDate |-> Some(90),
             lastActivity |-> Some(120) ] ] >>

\* Days on which the suite may be requested: 2025-06-15, 2025-06-17,
\* 2025-06-20, and more than a year later
TestSuiteDays == {165, 167, 170, 600}

\* object.field of a JavaScript object: undefined when it has no such field
Get(object, field) ==
    IF field \in DOMAIN object THEN Some(object[field]) ELSE Missing

\* The UserProfile the handler builds; history is the userData object,
\* which has no length
TestSuiteProfile(behaviorAnalysis) ==
    [behaviorScore |-> Get(behaviorAnalysis, "score"),
     riskLevel |-> behaviorAnalysis.riskLevel,
     historyLength |-> Missing]

\* The userActivity the handler builds
TestSuiteActivity(behaviorAnalysis) ==
    [recentActivity |-> Rat(8, 10),
     loyaltyLevel |-> IF behaviorAnalysis.riskLevel = "low" THEN "vip" ELSE "standard",
     weeklyVolume |-> Some(500)]

\* One iteration of the loop over the scenarios
ScenarioResult(scenario, day, draws) ==
    LET behaviorAnalysis == analyzeUserBehavior(scenario.userId, scenario.userData, day)
        userProfile == TestSuiteProfile(behaviorAnalysis)
    IN [scenario |-> scenario.name,
        behaviorAnalysis |-> behaviorAnalysis,
        userProfile |-> userProfile,
        chestOptimization |->
            optimizeChestDistribution(scenario.userId, userProfile,
                                      <<"silver", "gold", "platinum">>),
        rewards |-> calculateRewards(scenario.userId,
                                     TestSuiteActivity(behaviorAnalysis),
                                     "gold", draws)]

\* POST /api/v1/gamification-service/test-suite, one scenario per step (each
\* iteration awaits the three engine operations); the last step sends the
\* response
TestSuiteScenario(day, draws) ==
    /\ ~response.done
    /\ IF response = NoResponse THEN TRUE ELSE response.day = day
    /\ LET results == IF response = NoResponse THEN <<>> ELSE response.results
           next == Append(results,
                          ScenarioResult(testScenarios[Len(results) + 1], day, draws))
       IN response' =
            IF Len(next) < Len(testScenarios)
            THEN [done |-> FALSE, endpoint |-> "test-suite", day |-> day,
                  results |-> next]
            ELSE [done |-> TRUE, endpoint |-> "test-suite", day |-> day,
                  results |-> next, status |-> 200,
                  payload |-> [status |-> "success"]]
    /\ UNCHANGED <<potentials, rewards>>
    /\ UNCHANGED analyzerVars
    /\ UNCHANGED engineVars

NextTestSuite ==
    \E day \in TestSuiteDays, draws \in Draws("gold") : TestSuiteScenario(day, draws)

SpecTestSuite == InitFresh /\ [][NextTestSuite]_vars

\* ------------------------------------------------------------------------
\* Claims on the test-suite pipeline
\* ------------------------------------------------------------------------
\* C21: in the pipeline of the test-suite endpoint the score in the
\* UserProfile handed to the optimizer equals the score the behavior
\* analysis computed for the scenario, so the optimization is the one the
\* analysed score gives.
C21_ProfileCarriesAnalysedScore ==
    (response.done /\ response.endpoint = "test-suite") =>
        \A i \in 1..Len(response.results) :
            LET result == response.results[i]
                analysed == [result.userProfile EXCEPT
                               !.behaviorScore = Some(result.behaviorAnalysis.behaviorScore)]
            IN /\ result.userProfile.behaviorScore
                    = Some(result.behaviorAnalysis.behaviorScore)
               /\ result.chestOptimization
                    = optimizeChestDistribution(
                          result.behaviorAnalysis.userId, analysed,
                          <<"silver", "gold", "platinum">>)
====
